---------------------------- MODULE Spec2Model ----------------------------
(***************************************************************************)
(* Model of src/Parallax_calc.js: the Vincenty inverse solver              *)
(* (distVincenty), the chord converter (distTunnel), the parallax angle    *)
(* (parallaxAngle), the triangulation (e_to_m_distance) and the pipeline   *)
(* (distances_to_moon).                                                    *)
(*                                                                         *)
(* A JavaScript Number is modelled as a binary floating-point value with   *)
(* an 11-bit significand: [k |-> "num", m, e] stands for m * 2^e with      *)
(* MantLo <= |m| < MantHi (or m = 0), [k |-> "inf"] for +-Infinity and     *)
(* [k |-> "nan"] for NaN.  Every arithmetic operator rounds its exact      *)
(* result to nearest, ties to even, as IEEE 754 does; only the width of    *)
(* the significand differs from a double.  The exponent is unbounded       *)
(* (no overflow, no underflow) and zero is unsigned (every zero divisor    *)
(* the program can produce is +0).  A JavaScript String holding a number   *)
(* (the result of toFixed) is [k |-> "str", of |-> <the number>].          *)
(***************************************************************************)
EXTENDS Integers, Sequences, FiniteSets

\* ------------------------------------------------------------------------
\* Number: the significand range of the model's floating-point numbers.
MantBits == 11
MantLo == 1024
MantHi == 2048
\* exact alignment shift of Add and Div: MantHi * 2^GuardBits < 2^31
GuardBits == 19

NaN == [k |-> "nan", m |-> 0, e |-> 0]
Zero == [k |-> "num", m |-> 0, e |-> 0]
One == [k |-> "num", m |-> MantLo, e |-> 1 - MantBits]
Inf(s) == [k |-> "inf", m |-> s, e |-> 0]

IAbs(n) == IF n < 0 THEN -n ELSE n
ISgn(n) == IF n < 0 THEN -1 ELSE IF n > 0 THEN 1 ELSE 0

RECURSIVE BitLen(_)
BitLen(n) == IF n = 0 THEN 0 ELSE 1 + BitLen(n \div 2)

\* round n / 2^s to the nearest integer, ties to even (n >= 0, s >= 1)
RoundShift(n, s) ==
    IF 2 * (n % (2 ^ s)) > 2 ^ s
       \/ (2 * (n % (2 ^ s)) = 2 ^ s /\ (n \div (2 ^ s)) % 2 = 1)
    THEN (n \div (2 ^ s)) + 1
    ELSE n \div (2 ^ s)

\* the Number of sign sg and magnitude nearest to n * 2^e (n > 0), given
\* s = BitLen(n) - MantBits
NormBy(sg, n, e, s) ==
    IF s <= 0
    THEN [k |-> "num", m |-> sg * n * (2 ^ (-s)), e |-> e + s]
    ELSE IF RoundShift(n, s) = MantHi
         THEN [k |-> "num", m |-> sg * MantLo, e |-> e + s + 1]
         ELSE [k |-> "num", m |-> sg * RoundShift(n, s), e |-> e + s]

\* the Number nearest to n * 2^e
Norm(n, e) ==
    IF n = 0 THEN Zero
    ELSE NormBy(ISgn(n), IAbs(n), e, BitLen(IAbs(n)) - MantBits)

\* largest r with r * r <= n, by bisection on lo <= r < hi
RECURSIVE ISqrtBS(_, _, _)
ISqrtBS(n, lo, hi) ==
    IF hi - lo <= 1 THEN lo
    ELSE IF ((lo + hi) \div 2) * ((lo + hi) \div 2) <= n
         THEN ISqrtBS(n, (lo + hi) \div 2, hi)
         ELSE ISqrtBS(n, lo, (lo + hi) \div 2)

Sgn(x) == IF x.k = "nan" THEN 0 ELSE ISgn(x.m)
IsZero(x) == x.k = "num" /\ x.m = 0
isNaN(x) == x.k = "nan"
Neg(x) == IF x.k = "nan" THEN NaN ELSE [x EXCEPT !.m = -x.m]
MathAbs(x) == IF x.k = "nan" THEN NaN ELSE [x EXCEPT !.m = IAbs(x.m)]
FromInt(n) == Norm(n, 0)

\* Math.PI, and pi/2 split into a leading part and a correction, as a
\* math library's argument reduction holds it
MathPI == [k |-> "num", m |-> 1608, e |-> -9]
PiO2Hi == [k |-> "num", m |-> 1608, e |-> -10]
PiO2Lo == [k |-> "num", m |-> 2029, e |-> -22]

\* the integer nearest to a non-negative Number below 2^30 (0 beyond)
RoundToInt(x) ==
    IF x.k # "num" \/ x.m <= 0 THEN 0
    ELSE IF x.e >= 0 THEN (IF x.e > GuardBits THEN 0 ELSE x.m * (2 ^ x.e))
    ELSE IF -x.e > MantBits + 1 THEN 0
    ELSE RoundShift(x.m, -x.e)

Mul(x, y) ==
    IF x.k = "nan" \/ y.k = "nan" THEN NaN
    ELSE IF x.k = "inf" \/ y.k = "inf"
         THEN IF IsZero(x) \/ IsZero(y) THEN NaN ELSE Inf(Sgn(x) * Sgn(y))
         ELSE Norm(x.m * y.m, x.e + y.e)

Add(x, y) ==
    IF x.k = "nan" \/ y.k = "nan" THEN NaN
    ELSE IF x.k = "inf" THEN (IF y.k = "inf" /\ y.m # x.m THEN NaN ELSE x)
    ELSE IF y.k = "inf" THEN y
    ELSE IF IsZero(x) THEN y
    ELSE IF IsZero(y) THEN x
    ELSE IF x.e >= y.e
         THEN IF x.e - y.e > GuardBits THEN x
              ELSE Norm(x.m * (2 ^ (x.e - y.e)) + y.m, y.e)
         ELSE IF y.e - x.e > GuardBits THEN y
              ELSE Norm(y.m * (2 ^ (y.e - x.e)) + x.m, x.e)

Sub(x, y) == Add(x, Neg(y))

\* the quotient of the magnitudes n / d, with a sticky bit for the remainder
DivMag(n, d) == 2 * (n \div d) + (IF n % d = 0 THEN 0 ELSE 1)

Div(x, y) ==
    IF x.k = "nan" \/ y.k = "nan" THEN NaN
    ELSE IF x.k = "inf"
         THEN IF y.k = "inf" THEN NaN
              ELSE Inf(IF Sgn(y) < 0 THEN -Sgn(x) ELSE Sgn(x))
    ELSE IF y.k = "inf" THEN Zero
    ELSE IF IsZero(y) THEN (IF IsZero(x) THEN NaN ELSE Inf(Sgn(x)))
    ELSE IF IsZero(x) THEN Zero
    ELSE Norm(Sgn(x) * Sgn(y)
                * DivMag(IAbs(x.m) * (2 ^ GuardBits), IAbs(y.m)),
              x.e - y.e - GuardBits - 1)

\* the square root of n * 2^e (n > 0, e even), from r = ISqrtBS(n, ...)
SqrtMag(n, e, r) == Norm(2 * r + (IF r * r = n THEN 0 ELSE 1), (e \div 2) - 1)

MathSqrt(x) ==
    IF x.k = "nan" THEN NaN
    ELSE IF x.k = "inf" THEN (IF x.m > 0 THEN x ELSE NaN)
    ELSE IF x.m = 0 THEN Zero
    ELSE IF x.m < 0 THEN NaN
    ELSE IF x.e % 2 = 0
         THEN SqrtMag(x.m * (2 ^ (GuardBits - 1)), x.e - (GuardBits - 1),
                      ISqrtBS(x.m * (2 ^ (GuardBits - 1)), 0, 32768))
         ELSE SqrtMag(x.m * (2 ^ GuardBits), x.e - GuardBits,
                      ISqrtBS(x.m * (2 ^ GuardBits), 0, 32768))

\* x > y, x < y, x === y on Numbers (false whenever a NaN is involved)
Gt(x, y) == Sgn(Sub(x, y)) = 1
Lt(x, y) == Sgn(Sub(x, y)) = -1
StrictEq(x, y) == x.k # "nan" /\ y.k # "nan" /\ x = y

\* a decimal literal n / 10^d
Dec(n, d) == Div(FromInt(n), FromInt(10 ^ d))

\* The Math functions the program calls are the cases of one recursive
\* definition, Flt; the operators below name its cases.
RECURSIVE Flt(_, _, _)
SinP(t) == Flt("SinP", t, t)
CosP(t) == Flt("CosP", t, t)
Reduce(x) == Flt("Reduce", x, x)
MathSin(x) == Flt("MathSin", x, x)
MathCos(x) == Flt("MathCos", x, x)
MathTan(x) == Flt("MathTan", x, x)
AtanHalf(y) == Flt("AtanHalf", y, y)
AtanP(y) == Flt("AtanP", y, y)
MathAtan(x) == Flt("MathAtan", x, x)
MathAtan2(y, x) == Flt("MathAtan2", y, x)

\* the polynomial steps of the series: 1 - (z / n) * p  and  1/n - z * p
Step(z, n, p) == Sub(One, Mul(Div(z, FromInt(n)), p))
AStep(z, n, p) == Sub(Div(One, FromInt(n)), Mul(z, p))
\* x - n * (pi/2), in two parts
ReduceBy(x, kf) == Sub(Sub(x, Mul(kf, PiO2Hi)), Mul(kf, PiO2Lo))
\* the value of sin|x| (c = FALSE) or cos|x| (c = TRUE) in quadrant q at t
Quadrant(c, q, t) ==
    CASE q = 0 -> IF c THEN CosP(t) ELSE SinP(t)
      [] q = 1 -> IF c THEN Neg(SinP(t)) ELSE CosP(t)
      [] q = 2 -> IF c THEN Neg(CosP(t)) ELSE Neg(SinP(t))
      [] OTHER -> IF c THEN SinP(t) ELSE Neg(CosP(t))
SignAs(x, v) == IF x.m < 0 THEN Neg(v) ELSE v

Flt(op, x, y) ==
    \* sin and cos on the reduced range |x| <= pi/4
    CASE op = "SinP" ->
           Mul(x, Step(Mul(x, x), 6, Step(Mul(x, x), 20,
                  Step(Mul(x, x), 42, Step(Mul(x, x), 72, One)))))
      [] op = "CosP" ->
           Step(Mul(x, x), 2, Step(Mul(x, x), 12,
                Step(Mul(x, x), 30, Step(Mul(x, x), 56, One))))
      \* argument reduction of x >= 0: <<quadrant, t>>, x = quadrant*pi/2 + t
      [] op = "Reduce" ->
           <<RoundToInt(Div(x, PiO2Hi)) % 4,
             ReduceBy(x, FromInt(RoundToInt(Div(x, PiO2Hi))))>>
      [] op = "MathSin" ->
           IF x.k # "num" THEN NaN
           ELSE SignAs(x, Quadrant(FALSE, Reduce(MathAbs(x))[1],
                                   Reduce(MathAbs(x))[2]))
      [] op = "MathCos" ->
           IF x.k # "num" THEN NaN
           ELSE Quadrant(TRUE, Reduce(MathAbs(x))[1], Reduce(MathAbs(x))[2])
      [] op = "MathTan" -> Div(MathSin(x), MathCos(x))
      \* atan on 0 <= x <= 1: two half-angle reductions, then the series
      [] op = "AtanHalf" ->
           Div(x, Add(One, MathSqrt(Add(One, Mul(x, x)))))
      [] op = "AtanP" ->
           LET u == AtanHalf(AtanHalf(x))
               z == Mul(u, u)
           IN Mul(FromInt(4),
                  Mul(u, Sub(One, Mul(z, AStep(z, 3, AStep(z, 5,
                                 AStep(z, 7, Div(One, FromInt(9)))))))))
      [] op = "MathAtan" ->
           IF x.k = "nan" THEN NaN
           ELSE IF x.k = "inf"
                THEN (IF x.m > 0 THEN PiO2Hi ELSE Neg(PiO2Hi))
           ELSE SignAs(x, IF Gt(MathAbs(x), One)
                          THEN Sub(PiO2Hi, AtanP(Div(One, MathAbs(x))))
                          ELSE AtanP(MathAbs(x)))
      \* Math.atan2(x, y) of the call Flt("MathAtan2", x, y)
      [] op = "MathAtan2" ->
           IF x.k = "nan" \/ y.k = "nan" THEN NaN
           ELSE IF IsZero(x) THEN (IF Sgn(y) < 0 THEN MathPI ELSE Zero)
           ELSE IF IsZero(y)
                THEN (IF Sgn(x) > 0 THEN PiO2Hi ELSE Neg(PiO2Hi))
           ELSE IF x.k = "inf" /\ y.k = "inf"
                THEN SignAs(x, IF y.m > 0 THEN Div(MathPI, FromInt(4))
                               ELSE Mul(FromInt(3), Div(MathPI, FromInt(4))))
           ELSE IF Sgn(y) > 0 THEN MathAtan(Div(x, y))
           ELSE IF Sgn(x) > 0 THEN Add(MathAtan(Div(x, y)), MathPI)
           ELSE Sub(MathAtan(Div(x, y)), MathPI)

\* a String holding the text of a number, and the Number it converts to
\* when arithmetic is applied to it
Str(x) == [k |-> "str", of |-> x]
ToNumber(v) == IF v.k = "str" THEN v.of ELSE v

\* a variable declared and not yet assigned
Undefined == [k |-> "undef", m |-> 0, e |-> 0]

\* Number.prototype.toFixed(3): the text of x rounded to 3 decimals
\* (a Number of magnitude 4 or more lies more than 0.002 from its
\* neighbours, so its 3-decimal text reads back as itself)
toFixed3(x) ==
    IF x.k # "num" \/ x.e >= -8 THEN Str(x)
    ELSE LET n == RoundToInt(Mul(MathAbs(x), FromInt(1000)))
             v == Div(FromInt(n), FromInt(1000))
         IN Str(IF x.m < 0 THEN Neg(v) ELSE v)

\* ------------------------------------------------------------------------
\* toRad
toRad(Value) == Div(Mul(Value, MathPI), FromInt(180))

\* ------------------------------------------------------------------------
\* distVincenty
a == FromInt(6378137)
b == Dec(63567523, 1)
f == Div(One, Dec(298257224, 6))
iterLimitStart == 100
Tolerance == Div(Dec(1, 6), FromInt(1000000))

\* lines 22-24: U = x * tan(toRad(lat)) with x = atan(1 - f)
ReducedLatitude(lat) == Mul(MathAtan(Sub(One, f)), MathTan(toRad(lat)))

\* lines 25-28: the sines and cosines of U1 and U2
PrologueOf(LL, U1, U2) ==
    [L |-> LL, U1 |-> U1, U2 |-> U2,
     sinU1 |-> MathSin(U1), cosU1 |-> MathCos(U1),
     sinU2 |-> MathSin(U2), cosU2 |-> MathCos(U2)]

\* lines 18-31: the values set before the loop
Prologue(g) ==
    PrologueOf(toRad(Sub(g.lon2, g.lon1)),
               ReducedLatitude(g.lat1), ReducedLatitude(g.lat2))

\* line 35, given sinLambda and cosLambda (lines 33-34)
SinSigmaFrom(w, sinLambda, cosLambda) ==
    MathSqrt(Add(Mul(Mul(w.cosU2, sinLambda), Mul(w.cosU2, sinLambda)),
                 Mul(Sub(Mul(w.cosU1, w.sinU2),
                         Mul(Mul(w.sinU1, w.cosU2), cosLambda)),
                     Sub(Mul(w.cosU1, w.sinU2),
                         Mul(Mul(w.sinU1, w.cosU2), cosLambda)))))

\* lines 33-35
SinSigmaOf(w, lam) == SinSigmaFrom(w, MathSin(lam), MathCos(lam))

\* line 36: if (0 === sinSigma)
\* a variant without the early exit of lines 36-38
CoincidentPoints_never(ss) == FALSE

CoincidentPoints(ss) == StrictEq(Zero, ss)

\* line 43: cos2SigmaM as first computed
Cos2SigmaMOf(w, cosSigma, cosSqAlpha) ==
    Sub(cosSigma, Div(Mul(Mul(FromInt(2), w.sinU1), w.sinU2), cosSqAlpha))

\* line 44
COf(cosSqAlpha) ==
    Mul(Mul(Div(f, FromInt(16)), cosSqAlpha),
        Add(FromInt(4), Mul(f, Sub(FromInt(4), Mul(FromInt(3), cosSqAlpha)))))

\* lines 45-47: the guard on cos2SigmaM
EquatorialGuard(c2) == IF isNaN(c2) THEN Zero ELSE c2

\* line 49: the new lambda
LambdaOf(w, ss, cosSigma, sigma, sinAlpha, cos2SigmaM, CC) ==
    Add(w.L,
        Mul(Mul(Mul(Sub(One, CC), f), sinAlpha),
            Add(sigma,
                Mul(Mul(CC, ss),
                    Add(cos2SigmaM,
                        Mul(Mul(CC, cosSigma),
                            Add(FromInt(-1),
                                Mul(Mul(FromInt(2), cos2SigmaM),
                                    cos2SigmaM))))))))

\* lines 43-49, given the values of lines 39-42
LoopTail(w, ss, cosSigma, sigma, sinAlpha, cosSqAlpha, cos2SigmaM, CC) ==
    [sinSigma |-> ss, cosSigma |-> cosSigma, sigma |-> sigma,
     sinAlpha |-> sinAlpha, cosSqAlpha |-> cosSqAlpha,
     cos2SigmaM |-> cos2SigmaM, C |-> CC,
     lambda |-> LambdaOf(w, ss, cosSigma, sigma, sinAlpha, cos2SigmaM, CC)]

\* lines 40-47, given cosSigma and sinAlpha
LoopMid(w, ss, cosSigma, sinAlpha, cosSqAlpha) ==
    LoopTail(w, ss, cosSigma, MathAtan2(ss, cosSigma), sinAlpha, cosSqAlpha,
             EquatorialGuard(Cos2SigmaMOf(w, cosSigma, cosSqAlpha)),
             COf(cosSqAlpha))

\* lines 39-42, given sinLambda and cosLambda
LoopHead(w, ss, sinLambda, cosLambda, sinAlpha) ==
    LoopMid(w, ss,
            Add(Mul(w.sinU1, w.sinU2), Mul(Mul(w.cosU1, w.cosU2), cosLambda)),
            sinAlpha, Sub(One, Mul(sinAlpha, sinAlpha)))

\* lines 39-49: the rest of the loop body, given sinSigma: the values of
\* the loop's variables and the new lambda
LoopBody(w, lam, ss) ==
    LoopHead(w, ss, MathSin(lam), MathCos(lam),
             Div(Mul(Mul(w.cosU1, w.cosU2), MathSin(lam)), ss))

\* line 50: Math.abs(lambda - lambdaP) > 1e-12
NotConverged(lam, lamP) == Gt(MathAbs(Sub(lam, lamP)), Tolerance)

\* a variant of line 50 that decrements iterLimit before it compares
WhileCondition_eager(lam, lamP, limit) ==
    <<NotConverged(lam, lamP) /\ limit - 1 > 0, limit - 1>>

\* line 50: the while condition; --iterLimit runs only when the left
\* operand of && is true.  <<loop again, iterLimit afterwards>>
WhileCondition(lam, lamP, limit) ==
    IF NotConverged(lam, lamP)
    THEN <<limit - 1 > 0, limit - 1>>
    ELSE <<FALSE, limit>>

\* a variant of line 52 that never reports the failure
FailedToConverge_never(limit) == limit < 0

\* line 52: if (0 === iterLimit)
FailedToConverge(limit) == 0 = limit

\* line 56
USqOf(l) == Div(Mul(l.cosSqAlpha, Sub(Mul(a, a), Mul(b, b))), Mul(b, b))

\* line 57
AOf(uSq) ==
    Add(One,
        Mul(Div(uSq, FromInt(16384)),
            Add(FromInt(4096),
                Mul(uSq, Add(FromInt(-768),
                    Mul(uSq, Sub(FromInt(320), Mul(FromInt(175), uSq))))))))

\* line 58
BOf(uSq) ==
    Mul(Div(uSq, FromInt(1024)),
        Add(FromInt(256),
            Mul(uSq, Add(FromInt(-128),
                Mul(uSq, Sub(FromInt(74), Mul(FromInt(47), uSq)))))))

\* line 59
DeltaSigmaOf(B, ss, c2, cosSigma) ==
    Mul(Mul(B, ss),
        Add(c2,
            Mul(Div(B, FromInt(4)),
                Sub(Mul(cosSigma,
                        Add(FromInt(-1), Mul(Mul(FromInt(2), c2), c2))),
                    Mul(Mul(Mul(Div(B, FromInt(6)), c2),
                            Add(FromInt(-3), Mul(Mul(FromInt(4), ss), ss))),
                        Add(FromInt(-3), Mul(Mul(FromInt(4), c2), c2)))))))

\* lines 57-60, given uSq
DistanceOf(l, uSq) ==
    Mul(Mul(b, AOf(uSq)),
        Sub(l.sigma,
            DeltaSigmaOf(BOf(uSq), l.sinSigma, l.cos2SigmaM, l.cosSigma)))

\* lines 56-60: the distance s
FinalDistance(l) == DistanceOf(l, USqOf(l))

\* line 61: return s.toFixed(3)
ReturnDistance(s) == toFixed3(s)

\* ------------------------------------------------------------------------
\* distTunnel
r == Dec(63567523, 4)

\* a variant that validates its input instead of computing with it
distTunnel_validating(arc_length) ==
    IF isNaN(arc_length) THEN Zero
    ELSE MathSqrt(Sub(Add(Mul(r, r), Mul(r, r)),
                      Mul(Mul(Mul(FromInt(2), r), r),
                          MathCos(Div(arc_length, r)))))

distTunnel(arc_length) ==
    MathSqrt(Sub(Add(Mul(r, r), Mul(r, r)),
                 Mul(Mul(Mul(FromInt(2), r), r), MathCos(Div(arc_length, r)))))

\* ------------------------------------------------------------------------
\* parallaxAngle
\* lines 75-77 and 79-81: if (d < 0) d = d * -1
Unsigned(d) == IF Lt(d, Zero) THEN Mul(d, FromInt(-1)) ELSE d

\* line 82
Hypot(deltaRa, deltaDec) ==
    MathSqrt(Add(Mul(deltaRa, deltaRa), Mul(deltaDec, deltaDec)))

parallaxAngle(ra1, dec1, ra2, dec2) ==
    Hypot(Unsigned(Sub(ra2, ra1)), Unsigned(Sub(dec1, dec2)))

\* ------------------------------------------------------------------------
\* e_to_m_distance
\* a variant with NAB = OAB - 90 and NBA = OBA - 90
AnglesFromOAB_flipped(OAB, att1, att2) ==
    [MAB |-> Add(Sub(OAB, FromInt(90)), att1),
     MBA |-> Add(Sub(OAB, FromInt(90)), att2)]

\* lines 90-95, given AOB: OAB, OBA = OAB, NAB, NBA, MAB and MBA
AnglesFromOAB(OAB, att1, att2) ==
    [MAB |-> Add(Sub(FromInt(90), OAB), att1),
     MBA |-> Add(Sub(FromInt(90), OAB), att2)]

\* line 89, given ANB
AOBOf(ANB) == Sub(FromInt(360), Add(Add(ANB, FromInt(90)), FromInt(90)))

\* lines 88-95: the angles at the two stations, in degrees
StationAngles(att1, att2, parallaxtheta) ==
    AnglesFromOAB(
        Div(Sub(FromInt(180),
                AOBOf(Sub(FromInt(360),
                          Sub(Sub(Sub(FromInt(360), att1), att2),
                              parallaxtheta)))),
            FromInt(2)),
        att1, att2)

\* a variant that takes each distance from the angle at its own station
LawOfSines_ownAngle(g, sinParallax, dist_tunnel) ==
    <<Mul(dist_tunnel, Div(MathSin(toRad(g.MAB)), sinParallax)),
      Mul(dist_tunnel, Div(MathSin(toRad(g.MBA)), sinParallax))>>

\* lines 96-101, given MAB and MBA
LawOfSines(g, sinParallax, dist_tunnel) ==
    <<Mul(dist_tunnel, Div(MathSin(toRad(g.MBA)), sinParallax)),
      Mul(dist_tunnel, Div(MathSin(toRad(g.MAB)), sinParallax))>>

\* a variant that answers [0, 0] when sin(parallaxtheta) is 0
e_to_m_distance_guarded(att1, att2, parallaxtheta, dist_tunnel) ==
    IF IsZero(MathSin(toRad(parallaxtheta))) THEN <<Zero, Zero>>
    ELSE LawOfSines(StationAngles(att1, att2, parallaxtheta),
                    MathSin(toRad(parallaxtheta)), dist_tunnel)

e_to_m_distance(att1, att2, parallaxtheta, dist_tunnel) ==
    LawOfSines(StationAngles(att1, att2, parallaxtheta),
               MathSin(toRad(parallaxtheta)), dist_tunnel)

\* ------------------------------------------------------------------------
\* The inputs.
MaxLat == 3
MaxLon == 4
MaxObs == 3
MaxTri == 4

LatVals == <<Zero, Dec(5, 1), FromInt(30), FromInt(-45), FromInt(60)>>
LonVals == <<Zero, FromInt(10), FromInt(90), Dec(1795, 1), FromInt(-120),
             FromInt(60)>>
ObsVals == << [ra |-> FromInt(10), dec |-> FromInt(20), alt |-> FromInt(30)],
              [ra |-> FromInt(11), dec |-> FromInt(21), alt |-> FromInt(45)],
              [ra |-> FromInt(210), dec |-> FromInt(20), alt |-> Zero],
              [ra |-> FromInt(10), dec |-> FromInt(20), alt |-> FromInt(90)],
              [ra |-> Dec(125, 1), dec |-> FromInt(-5), alt |-> FromInt(60)] >>

Upto(n, seq) == {seq[i] : i \in 1..(IF n < Len(seq) THEN n ELSE Len(seq))}
Lats == Upto(MaxLat, LatVals)
Lons == Upto(MaxLon, LonVals)
Observations == Upto(MaxObs, ObsVals)

VARIABLES pc, geo, pre, lambda, lambdaP, iterLimit, loop, iters, ret,
          obs, arcdistance, distance_tunnel, parallaxtheta, lengths_to_moon

vars == <<pc, geo, pre, lambda, lambdaP, iterLimit, loop, iters, ret,
          obs, arcdistance, distance_tunnel, parallaxtheta, lengths_to_moon>>

NoLoop == [sinSigma |-> Undefined, cosSigma |-> Undefined,
           sigma |-> Undefined, sinAlpha |-> Undefined,
           cosSqAlpha |-> Undefined, cos2SigmaM |-> Undefined,
           C |-> Undefined]
NoObs == [alt1 |-> Undefined, alt2 |-> Undefined]

\* a call of distances_to_moon: the two GeoPoints are read first (line 105)
Init ==
    /\ pc = "start"
    /\ geo \in [lat1 : Lats, lon1 : Lons, lat2 : Lats, lon2 : Lons]
    /\ pre = Undefined
    /\ lambda = Undefined
    /\ lambdaP = Undefined
    /\ iterLimit = iterLimitStart
    /\ loop = NoLoop
    /\ iters = 0
    /\ ret = Undefined
    /\ obs = NoObs
    /\ arcdistance = Undefined
    /\ distance_tunnel = Undefined
    /\ parallaxtheta = Undefined
    /\ lengths_to_moon = Undefined

\* distVincenty, lines 18-31
Enter ==
    /\ pc = "start"
    /\ pre' = Prologue(geo)
    /\ lambda' = pre'.L
    /\ pc' = "loop"
    /\ UNCHANGED <<geo, lambdaP, iterLimit, loop, iters, ret, obs,
                   arcdistance, distance_tunnel, parallaxtheta,
                   lengths_to_moon>>

\* distVincenty, lines 36-38: return 0
ReturnZero(ss) ==
    /\ ret' = Zero
    /\ pc' = "returned"
    /\ loop' = [loop EXCEPT !.sinSigma = ss]
    /\ UNCHANGED <<lambda, lambdaP, iterLimit>>

\* distVincenty, lines 39-50: the assignments of the loop body, then the
\* while condition c
Advance(n, c) ==
    /\ loop' = [x \in DOMAIN NoLoop |-> n[x]]
    /\ lambdaP' = lambda
    /\ lambda' = n.lambda
    /\ iterLimit' = c[2]
    /\ pc' = IF c[1] THEN "loop" ELSE "after"
    /\ ret' = ret

IterateWith(n) == Advance(n, WhileCondition(n.lambda, lambda, iterLimit))

IterateFrom(ss) ==
    IF CoincidentPoints(ss) THEN ReturnZero(ss)
    ELSE IterateWith(LoopBody(pre, lambda, ss))

\* distVincenty, lines 32-50: one pass through the do-while loop
Iterate ==
    /\ pc = "loop"
    /\ iters' = iters + 1
    /\ IterateFrom(SinSigmaOf(pre, lambda))
    /\ UNCHANGED <<geo, pre, obs, arcdistance, distance_tunnel,
                   parallaxtheta, lengths_to_moon>>

\* distVincenty, lines 52-61
AfterLoop ==
    /\ pc = "after"
    /\ ret' = IF FailedToConverge(iterLimit) THEN NaN
              ELSE ReturnDistance(FinalDistance(loop))
    /\ pc' = "returned"
    /\ UNCHANGED <<geo, pre, lambda, lambdaP, iterLimit, loop, iters, obs,
                   arcdistance, distance_tunnel, parallaxtheta,
                   lengths_to_moon>>

\* distances_to_moon, lines 105-109, once distVincenty has returned; the
\* observations are first read here
Pipeline ==
    /\ pc = "returned"
    /\ \E o1 \in Observations, o2 \in Observations :
         /\ obs' = [ra1 |-> o1.ra, dec1 |-> o1.dec, alt1 |-> o1.alt,
                    ra2 |-> o2.ra, dec2 |-> o2.dec, alt2 |-> o2.alt]
         /\ arcdistance' = Div(ToNumber(ret), FromInt(1000))
         /\ distance_tunnel' = distTunnel(arcdistance')
         /\ parallaxtheta' = parallaxAngle(o1.ra, o1.dec, o2.ra, o2.dec)
         /\ lengths_to_moon' = e_to_m_distance(o1.alt, o2.alt, parallaxtheta',
                                               distance_tunnel')
    /\ pc' = "done"
    /\ UNCHANGED <<geo, pre, lambda, lambdaP, iterLimit, loop, iters, ret>>

Next == Enter \/ Iterate \/ AfterLoop \/ Pipeline

Spec == Init /\ [][Next]_vars

\* ------------------------------------------------------------------------
\* distVincenty under every sequence of lambda updates: the loop of lines
\* 32-50 with the value line 49 assigns replaced by any of LambdaUpdates.
\* Every run of the loop of Spec is, as far as lines 50-54 can tell, one of
\* these runs; runs that meet the tolerance at any chosen iteration, the
\* 100th included, are among them.
LambdaUpdates == {One, FromInt(2)}

AnyGeo == [lat1 |-> Zero, lon1 |-> Zero,
           lat2 |-> FromInt(30), lon2 |-> FromInt(10)]

InitAny ==
    /\ pc = "start"
    /\ geo = AnyGeo
    /\ pre = Undefined
    /\ lambda = Undefined
    /\ lambdaP = Undefined
    /\ iterLimit = iterLimitStart
    /\ loop = NoLoop
    /\ iters = 0
    /\ ret = Undefined
    /\ obs = NoObs
    /\ arcdistance = Undefined
    /\ distance_tunnel = Undefined
    /\ parallaxtheta = Undefined
    /\ lengths_to_moon = Undefined

IterateAnyWith(n, lam) ==
    Advance([n EXCEPT !.lambda = lam],
            WhileCondition(lam, lambda, iterLimit))

IterateAnyFrom(ss, lam) ==
    IF CoincidentPoints(ss) THEN ReturnZero(ss)
    ELSE IterateAnyWith(LoopBody(pre, lambda, ss), lam)

\* lines 32-50, line 49 assigning any of LambdaUpdates
IterateAny ==
    /\ pc = "loop"
    /\ iters' = iters + 1
    /\ \E lam \in LambdaUpdates : IterateAnyFrom(SinSigmaOf(pre, lambda), lam)
    /\ UNCHANGED <<geo, pre, obs, arcdistance, distance_tunnel,
                   parallaxtheta, lengths_to_moon>>

NextAny == Enter \/ IterateAny \/ AfterLoop

SpecAny == InitAny /\ [][NextAny]_vars

\* ------------------------------------------------------------------------
\* Properties of distVincenty.

\* distVincenty has returned (and distances_to_moon may have gone on)
Returned == pc \in {"returned", "done"}

\* distVincenty returned through lines 36-38
EarlyExit == Returned /\ IsZero(loop.sinSigma)

\* |lam - lamP| <= 1e-12, as a comparison of Numbers (false on NaN)
ToleranceMet(lam, lamP) ==
    /\ MathAbs(Sub(lam, lamP)).k # "nan"
    /\ ~Gt(MathAbs(Sub(lam, lamP)), Tolerance)

\* the two GeoPoints of the call are the same point
SamePoint == geo.lat1 = geo.lat2 /\ geo.lon1 = geo.lon2

\* C1: a call that leaves the loop after 100 iterations with the tolerance
\* still unmet returns the NaN sentinel, never a distance; a call whose last
\* iteration meets the tolerance returns the distance computed by lines
\* 56-61, never the sentinel.
C1_ConvergenceDecidesOutcome ==
    (Returned /\ ~EarlyExit) =>
        /\ (iters = iterLimitStart /\ ~ToleranceMet(lambda, lambdaP))
               => ret = NaN
        /\ ToleranceMet(lambda, lambdaP)
               => /\ ret # NaN
                  /\ ret = ReturnDistance(FinalDistance(loop))
                  /\ ToNumber(ret).k = "num"

\* the 100th iteration met the tolerance and a distance was returned
C1_Witness ==
    /\ pc = "returned"
    /\ iters = iterLimitStart
    /\ ToleranceMet(lambda, lambdaP)
    /\ ret.k = "str"

\* 100 iterations left the tolerance unmet and the sentinel was returned
C1_SentinelReached == pc = "returned" /\ iters = iterLimitStart /\ ret = NaN

\* C2: for identical points sinSigma is 0 on the first iteration, and a
\* call that finds sinSigma = 0 returns 0 at once: on the first iteration
\* lambda still holds L, lambdaP was never assigned and iterLimit is
\* untouched.
C2_IdenticalPointsReturnZero ==
    Returned =>
        /\ SamePoint => (EarlyExit /\ iters = 1)
        /\ EarlyExit => ret = Zero
        /\ (EarlyExit /\ iters = 1)
               => /\ lambda = pre.L
                  /\ lambdaP = Undefined
                  /\ iterLimit = iterLimitStart

C2_Witness ==
    pc = "returned" /\ SamePoint /\ ~IsZero(geo.lat1) /\ ret = Zero

\* C3: the loop body runs at most 100 times; the loop goes on while the
\* tolerance is unmet, and is left only by an iteration that meets the
\* tolerance or by the 100th.
C3_LoopStopsOnToleranceOrCap ==
    /\ iters <= iterLimitStart
    /\ (pc = "loop" /\ iters > 0) => ~ToleranceMet(lambda, lambdaP)
    /\ pc = "after" =>
           (ToleranceMet(lambda, lambdaP) \/ iters = iterLimitStart)

\* C5: whatever path distVincenty returns by, the value is a Number.
C5_ReturnsPlainNumber == Returned => ret.k \in {"num", "nan", "inf"}

\* C8: after an iteration in which cosSqAlpha is 0, cos2SigmaM is 0 and the
\* lambda it produced is a finite Number.
C8_EquatorialGuardForcesZero ==
    (pc \in {"loop", "after"} /\ iters > 0 /\ IsZero(loop.cosSqAlpha))
        => (loop.cos2SigmaM = Zero /\ lambda.k = "num")

\* C9: U1 and U2 are atan((1 - f) * tan(lat)) of the two latitudes.
C9_ReducedLatitudeIsAtanOfProduct ==
    pc # "start" =>
        /\ pre.U1 = MathAtan(Mul(Sub(One, f), MathTan(toRad(geo.lat1))))
        /\ pre.U2 = MathAtan(Mul(Sub(One, f), MathTan(toRad(geo.lat2))))

\* ------------------------------------------------------------------------
\* Properties of distances_to_moon.

\* x is a Number that is not negative (NaN is not such a Number)
NonNegative(x) == x.k \in {"num", "inf"} /\ Sgn(x) >= 0

\* x is NaN or a Number that is not negative
NonNegativeOrNaN(x) == isNaN(x) \/ NonNegative(x)

\* the two stations report the same CelestialObservation
SameObservation ==
    obs.ra1 = obs.ra2 /\ obs.dec1 = obs.dec2 /\ obs.alt1 = obs.alt2

\* att1, att2 and the parallax angle are the angles of a triangle: the
\* parallax angle and both station angles lie between 0 and 180 degrees
FormsTriangle(att1, att2, parallax) ==
    /\ NonNegative(parallax)
    /\ ~Gt(Add(MathAbs(Sub(att1, att2)), parallax), FromInt(180))

\* C4 as stated: every numeric output of distVincenty, distTunnel and
\* e_to_m_distance (hence distances_to_moon) is >= 0, for all inputs.
C4_AllOutputsNonNegative ==
    pc = "done" =>
        /\ NonNegativeOrNaN(ToNumber(ret))
        /\ NonNegativeOrNaN(distance_tunnel)
        /\ NonNegativeOrNaN(lengths_to_moon[1])
        /\ NonNegativeOrNaN(lengths_to_moon[2])

\* C4, amended: the geodesic distance, the chord and the parallax angle are
\* never negative; the two distances to the target are not negative when
\* the altitudes and the parallax angle are the angles of a triangle.
C4_NonNegativeForTriangles ==
    pc = "done" =>
        /\ NonNegativeOrNaN(ToNumber(ret))
        /\ NonNegativeOrNaN(distance_tunnel)
        /\ NonNegative(parallaxtheta)
        /\ FormsTriangle(obs.alt1, obs.alt2, parallaxtheta)
               => /\ NonNegativeOrNaN(lengths_to_moon[1])
                  /\ NonNegativeOrNaN(lengths_to_moon[2])

C4_Witness ==
    /\ pc = "done"
    /\ FormsTriangle(obs.alt1, obs.alt2, parallaxtheta)
    /\ obs.alt1 # obs.alt2
    /\ Sgn(lengths_to_moon[1]) = 1
    /\ Sgn(lengths_to_moon[2]) = 1

\* C6: when distVincenty returns the NaN sentinel, distances_to_moon still
\* returns: the kilometres, the chord and both returned distances are NaN.
C6_SentinelPropagates ==
    (pc = "done" /\ ret = NaN) =>
        /\ isNaN(arcdistance)
        /\ isNaN(distance_tunnel)
        /\ isNaN(lengths_to_moon[1])
        /\ isNaN(lengths_to_moon[2])

C6_Witness ==
    /\ pc = "done"
    /\ iters = iterLimitStart
    /\ ret = NaN
    /\ lengths_to_moon = <<NaN, NaN>>

\* C7: for identical GeoPoints and identical observations the geodesic
\* distance, the chord and the parallax angle are 0 and both returned
\* distances are NaN.
C7_IdenticalStationsGiveNaN ==
    (pc = "done" /\ SamePoint /\ SameObservation) =>
        /\ ret = Zero
        /\ arcdistance = Zero
        /\ distance_tunnel = Zero
        /\ parallaxtheta = Zero
        /\ lengths_to_moon = <<NaN, NaN>>

C7_Witness ==
    /\ pc = "done"
    /\ SamePoint
    /\ SameObservation
    /\ ~IsZero(geo.lat1)
    /\ ~IsZero(obs.alt1)
    /\ lengths_to_moon = <<NaN, NaN>>

\* ------------------------------------------------------------------------
\* e_to_m_distance called on its own.
TriAltVals == <<FromInt(30), FromInt(45), Dec(123, 1), FromInt(90), Zero,
                Dec(125, 1), FromInt(60)>>
TriParallaxVals == <<One, Dec(15, 1), Dec(1414, 3), FromInt(100),
                     FromInt(200), Zero>>
TriBaselines == {FromInt(1000), Dec(63567523, 4)}

TriAlts == Upto(MaxTri, TriAltVals)
TriParallaxes == Upto(MaxTri, TriParallaxVals)

NoGeo == [lat1 |-> Undefined, lon1 |-> Undefined,
          lat2 |-> Undefined, lon2 |-> Undefined]

\* a call e_to_m_distance(att1, att2, parallaxtheta, distance_tunnel)
InitTri ==
    /\ pc = "tri"
    /\ obs \in [alt1 : TriAlts, alt2 : TriAlts]
    /\ parallaxtheta \in TriParallaxes
    /\ distance_tunnel \in TriBaselines
    /\ geo = NoGeo
    /\ pre = Undefined
    /\ lambda = Undefined
    /\ lambdaP = Undefined
    /\ iterLimit = iterLimitStart
    /\ loop = NoLoop
    /\ iters = 0
    /\ ret = Undefined
    /\ arcdistance = Undefined
    /\ lengths_to_moon = Undefined

\* e_to_m_distance, lines 88-101
Triangulate ==
    /\ pc = "tri"
    /\ lengths_to_moon' = e_to_m_distance(obs.alt1, obs.alt2, parallaxtheta,
                                          distance_tunnel)
    /\ pc' = "tri_done"
    /\ UNCHANGED <<geo, pre, lambda, lambdaP, iterLimit, loop, iters, ret,
                   obs, arcdistance, distance_tunnel, parallaxtheta>>

NextTri == Triangulate

SpecTri == InitTri /\ [][NextTri]_vars

\* the closed forms of the two station angles, in the Number arithmetic
ClosedMAB(att1, att2, parallax) ==
    Add(FromInt(90), Div(Sub(Sub(att1, att2), parallax), FromInt(2)))
ClosedMBA(att1, att2, parallax) ==
    Add(FromInt(90), Div(Sub(Sub(att2, att1), parallax), FromInt(2)))

\* x is a whole number of half degrees, so that the sums and halves of
\* lines 88-95 are exact
HalfDegrees(x) ==
    /\ x.k = "num"
    /\ (x.e >= -1 \/ x.m % (2 ^ (-1 - x.e)) = 0)

\* x and y differ by at most a quarter of a degree (two units in the last
\* place of a Number near 180)
WithinRounding(x, y) == ~Gt(MathAbs(Sub(x, y)), Dec(25, 2))

\* x and y are the same value, or differ by at most one part in a hundred
SameToRounding(x, y) ==
    x = y \/ ~Gt(MathAbs(Sub(x, y)), Mul(MathAbs(x), Dec(1, 2)))

\* C10, given the angles g of lines 88-95 and the result of the call with
\* the altitudes swapped
C10_For(g, swapped) ==
    /\ WithinRounding(g.MAB, ClosedMAB(obs.alt1, obs.alt2, parallaxtheta))
    /\ WithinRounding(g.MBA, ClosedMBA(obs.alt1, obs.alt2, parallaxtheta))
    /\ WithinRounding(Add(Add(g.MAB, g.MBA), parallaxtheta), FromInt(180))
    /\ lengths_to_moon[1] =
           Mul(distance_tunnel, Div(MathSin(toRad(g.MBA)),
                                    MathSin(toRad(parallaxtheta))))
    /\ lengths_to_moon[2] =
           Mul(distance_tunnel, Div(MathSin(toRad(g.MAB)),
                                    MathSin(toRad(parallaxtheta))))
    /\ SameToRounding(swapped[1], lengths_to_moon[2])
    /\ SameToRounding(swapped[2], lengths_to_moon[1])
    /\ (HalfDegrees(obs.alt1) /\ HalfDegrees(obs.alt2)
            /\ HalfDegrees(parallaxtheta))
           => /\ g.MAB = ClosedMAB(obs.alt1, obs.alt2, parallaxtheta)
              /\ g.MBA = ClosedMBA(obs.alt1, obs.alt2, parallaxtheta)
              /\ Add(Add(g.MAB, g.MBA), parallaxtheta) = FromInt(180)
              /\ swapped = <<lengths_to_moon[2], lengths_to_moon[1]>>

\* C10: MAB = 90 + (att1 - att2 - parallax)/2, MBA = 90 + (att2 - att1 -
\* parallax)/2 and MAB + MBA + parallax = 180, exactly for altitudes and
\* parallax in whole half degrees and to within rounding otherwise; the
\* first distance is taken from MBA and the second from MAB, so the call
\* with the altitudes swapped returns the two distances swapped.
C10_TriangleAnglesAndSwap ==
    pc = "tri_done" =>
        C10_For(StationAngles(obs.alt1, obs.alt2, parallaxtheta),
                e_to_m_distance(obs.alt2, obs.alt1, parallaxtheta,
                                distance_tunnel))

C10_Witness ==
    /\ pc = "tri_done"
    /\ obs.alt1 = FromInt(30)
    /\ obs.alt2 = FromInt(45)
    /\ parallaxtheta = One
    /\ Sgn(lengths_to_moon[1]) = 1
    /\ Gt(lengths_to_moon[1], lengths_to_moon[2])

=============================================================================
